---- MODULE Spec2Model ----
(***************************************************************************)
(* A model of the option registry (src/src/opt.rs) and of the match result *)
(* (src/src/matches.rs) of arg-parse-rust.                                 *)
(*                                                                         *)
(* A Rust String is a sequence of one-character strings, so that           *)
(* starts_with, strip_prefix, chars().count() and chars().nth(1) are       *)
(* computed on the characters.  An Option<T> is a sequence of length 0     *)
(* (None) or 1 (Some(x)).  A HashMap is a function on the set of its keys. *)
(* The fields `help` and `required` of Opt are read by no operation of the *)
(* registry and are left out of the record.                                *)
(***************************************************************************)
EXTENDS Integers, Sequences, FiniteSets, TLC

VARIABLES
    pc,          \* "init": no registry yet; "rejected": Opts::new returned Err;
                 \* "ready": a registry exists; "scan": inside parse's loop;
                 \* "done": parse has returned
    given,       \* the vector handed to Opts::new, or <<the Opt handed to add>>
    opts,        \* Opts.opts, the registry's declarations
    res,         \* what the last call returned: [op, ok, err]
    matches,     \* Some(Matches) once parse has returned Ok, else None
    args,        \* the tokens the iterator `args` of parse has yielded so far
    role,        \* what parse did with each of them: "exec", "pos", "opt", "val"
    positional,  \* parse's local `positional`
    named        \* parse's local `named`

vars == <<pc, given, opts, res, matches, args, role, positional, named>>

(***************************************************************************)
(* Bounds of the model.                                                    *)
(***************************************************************************)
MaxOpts == 2     \* longest vector handed to Opts::new before a parse
MaxDecls == 3    \* longest vector handed to Opts::new when only validation runs
MaxArgs == 5     \* longest token vector handed to parse (exec name included)
MaxAdds == 3     \* number of calls of add on one registry

(***************************************************************************)
(* Option<T>                                                               *)
(***************************************************************************)
None == <<>>
Some(x) == <<x>>
is_some(o) == Len(o) = 1
unwrap(o) == o[1]

(***************************************************************************)
(* str                                                                     *)
(***************************************************************************)
starts_with(s, p) == Len(s) >= Len(p) /\ SubSeq(s, 1, Len(p)) = p

\* Some(rest) when s starts with p, else None
strip_prefix(s, p) ==
    IF starts_with(s, p) THEN Some(SubSeq(s, Len(p) + 1, Len(s))) ELSE None

chars_count(s) == Len(s)

\* chars().nth(n), counting from 0
chars_nth(s, n) == IF n + 1 <= Len(s) THEN Some(s[n + 1]) ELSE None

(***************************************************************************)
(* Opt and its builder                                                     *)
(***************************************************************************)
Actions == {"Set", "Append", "SetTrue", "SetFalse"}

OptName(n) ==
    [name |-> n, short |-> None, long |-> None, default |-> None, action |-> "Set"]

OptShort(o, c) == [o EXCEPT !.short = Some(c)]
OptLong(o, l) == [o EXCEPT !.long = Some(l)]
OptDefault(o, d) == [o EXCEPT !.default = Some(d)]
OptAction(o, a) == [o EXCEPT !.action = a]

(***************************************************************************)
(* Value                                                                   *)
(***************************************************************************)
Single(s) == [tag |-> "Single", single |-> s, multi |-> <<>>, flag |-> FALSE]
Multi(v) == [tag |-> "Multi", single |-> <<>>, multi |-> v, flag |-> FALSE]
Flag(b) == [tag |-> "Flag", single |-> <<>>, multi |-> <<>>, flag |-> b]

(***************************************************************************)
(* HashMap                                                                 *)
(***************************************************************************)
EmptyMap == [k \in {} |-> None]
contains_key(m, k) == k \in DOMAIN m
insert(m, k, v) == [x \in (DOMAIN m) \cup {k} |-> IF x = k THEN v ELSE m[x]]
get(m, k) == IF k \in DOMAIN m THEN Some(m[k]) ELSE None

(***************************************************************************)
(* Results.  An error is [kind, arg]: a ParseError or ValueError variant   *)
(* with its String, or kind "String" for the message of validate.          *)
(***************************************************************************)
NoErr == [kind |-> "none", arg |-> <<>>]
Ok(op) == [op |-> op, ok |-> TRUE, err |-> NoErr]
Err(op, kind, arg) == [op |-> op, ok |-> FALSE, err |-> [kind |-> kind, arg |-> arg]]

(***************************************************************************)
(* Opts::validate.  The three format! texts are one element each, followed *)
(* by the characters of the offending value.                               *)
(***************************************************************************)
NameMsg == "Optument names must be unique; found two with name "
ShortMsg == "Short flags must be unique; found two with short flag -"
LongMsg == "Long flags must be unique; found two with long flag --"

RECURSIVE validateFrom(_, _, _, _, _)
validateFrom(os, i, names, short, long) ==
    IF i > Len(os) THEN Ok("validate")
    ELSE LET arg == os[i] IN
        IF arg.name \in names
            THEN Err("validate", "String", <<NameMsg>> \o arg.name)
        ELSE IF is_some(arg.short) /\ unwrap(arg.short) \in short
            THEN Err("validate", "String", <<ShortMsg>> \o <<unwrap(arg.short)>>)
        ELSE IF is_some(arg.long) /\ unwrap(arg.long) \in long
            THEN Err("validate", "String", <<LongMsg>> \o unwrap(arg.long))
        ELSE validateFrom(os, i + 1,
                names \cup {arg.name},
                IF is_some(arg.short) THEN short \cup {unwrap(arg.short)} ELSE short,
                IF is_some(arg.long) THEN long \cup {unwrap(arg.long)} ELSE long)

\* Variant of validate: the short of a declaration is never inserted into the
\* set of the shorts seen.
RECURSIVE validateNoShort(_, _, _, _, _)
validateNoShort(os, i, names, short, long) ==
    IF i > Len(os) THEN Ok("validate")
    ELSE LET arg == os[i] IN
        IF arg.name \in names
            THEN Err("validate", "String", <<NameMsg>> \o arg.name)
        ELSE IF is_some(arg.short) /\ unwrap(arg.short) \in short
            THEN Err("validate", "String", <<ShortMsg>> \o <<unwrap(arg.short)>>)
        ELSE IF is_some(arg.long) /\ unwrap(arg.long) \in long
            THEN Err("validate", "String", <<LongMsg>> \o unwrap(arg.long))
        ELSE validateNoShort(os, i + 1,
                names \cup {arg.name},
                short,
                IF is_some(arg.long) THEN long \cup {unwrap(arg.long)} ELSE long)

validate_no_short(os) == validateNoShort(os, 1, {}, {}, {})

validate(os) == validateFrom(os, 1, {}, {}, {})

(***************************************************************************)
(* Opts::populate_defaults                                                 *)
(***************************************************************************)
RECURSIVE populateFrom(_, _, _)
populateFrom(os, i, nm) ==
    IF i > Len(os) THEN nm
    ELSE LET opt == os[i] IN
        populateFrom(os, i + 1,
            IF is_some(opt.default)
                THEN insert(nm, opt.name, Single(unwrap(opt.default)))
            ELSE CASE opt.action = "Set" -> nm
                   [] opt.action = "Append" -> insert(nm, opt.name, Multi(<<>>))
                   [] opt.action = "SetTrue" -> insert(nm, opt.name, Flag(TRUE))
                   [] opt.action = "SetFalse" -> insert(nm, opt.name, Flag(FALSE)))

populate_defaults(os, nm) == populateFrom(os, 1, nm)

(***************************************************************************)
(* Opts::find_opt.  The result is [ok, opt, res]: Ok(&Opt) or              *)
(* Err(ParseError).                                                        *)
(***************************************************************************)
Dash == <<"-">>
DashDash == <<"-", "-">>

\* Iterator::find: the first element of os among those at the indices hits
\* (the indices where the closure holds), as an Option
find(os, hits) ==
    IF hits = {} THEN None
    ELSE Some(os[CHOOSE i \in hits : \A j \in hits : i <= j])

found(opt, arg) ==
    IF is_some(opt)
        THEN [ok |-> TRUE, opt |-> opt, res |-> Ok("parse")]
        ELSE [ok |-> FALSE, opt |-> None, res |-> Err("parse", "UnexpectedOption", arg)]

\* Variant of find_opt: only a token longer than two characters is malformed.
find_opt_gt(os, arg) ==
    IF starts_with(arg, DashDash) THEN
        LET long == unwrap(strip_prefix(arg, DashDash))
        IN  found(find(os, {i \in 1..Len(os) : os[i].long = Some(long)}), arg)
    ELSE IF starts_with(arg, Dash) THEN
        IF chars_count(arg) > 2
            THEN [ok |-> FALSE, opt |-> None,
                  res |-> Err("parse", "MalformedOption", arg)]
        ELSE LET short == chars_nth(arg, 1)
             IN  found(find(os, {i \in 1..Len(os) : os[i].short = short}), arg)
    ELSE [ok |-> FALSE, opt |-> None, res |-> Err("parse", "UnexpectedOption", arg)]

find_opt(os, arg) ==
    IF starts_with(arg, DashDash) THEN
        LET long == unwrap(strip_prefix(arg, DashDash))
        IN  found(find(os, {i \in 1..Len(os) : os[i].long = Some(long)}), arg)
    ELSE IF starts_with(arg, Dash) THEN
        IF chars_count(arg) # 2
            THEN [ok |-> FALSE, opt |-> None,
                  res |-> Err("parse", "MalformedOption", arg)]
        ELSE LET short == chars_nth(arg, 1)
             IN  found(find(os, {i \in 1..Len(os) : os[i].short = short}), arg)
    ELSE [ok |-> FALSE, opt |-> None, res |-> Err("parse", "UnexpectedOption", arg)]

(***************************************************************************)
(* Opts::parse, the match on opt.action.  nxt is what args.next() returns  *)
(* in the arms that call it.  The result is [named, res].                  *)
(***************************************************************************)
calls_next(opt) == opt.action \in {"Set", "Append"}

\* Variant of set_arm: the `else` of the `if let` is missing, so a Set option
\* without a following token is passed over.
set_arm_no_else(opt, nxt, nm) ==
    IF is_some(nxt)
        THEN [named |-> insert(nm, opt.name, Single(unwrap(nxt))), res |-> Ok("parse")]
        ELSE [named |-> nm, res |-> Ok("parse")]

\* Variant of set_arm: entry(..).or_insert(..) in the place of insert(..), so a
\* value already in the slot is kept.
set_arm_or_insert(opt, nxt, nm) ==
    IF is_some(nxt)
        THEN [named |-> IF contains_key(nm, opt.name) THEN nm
                        ELSE insert(nm, opt.name, Single(unwrap(nxt))),
              res |-> Ok("parse")]
        ELSE [named |-> nm, res |-> Err("parse", "MissingValue", opt.name)]

\* Action::Set
set_arm(opt, nxt, nm) ==
    IF is_some(nxt)
        THEN [named |-> insert(nm, opt.name, Single(unwrap(nxt))), res |-> Ok("parse")]
        ELSE [named |-> nm, res |-> Err("parse", "MissingValue", opt.name)]

\* Variant of append_arm: vals.insert(0, val) in the place of vals.push(val).
append_arm_front(opt, nxt, nm) ==
    IF ~is_some(nxt)
        THEN [named |-> nm, res |-> Err("parse", "MissingValue", opt.name)]
    ELSE IF contains_key(nm, opt.name) /\ nm[opt.name].tag = "Multi"
        THEN [named |-> [nm EXCEPT ![opt.name] =
                            Multi(<<unwrap(nxt)>> \o nm[opt.name].multi)],
              res |-> Ok("parse")]
    ELSE IF ~contains_key(nm, opt.name)
        THEN [named |-> insert(nm, opt.name, Multi(<<unwrap(nxt)>>)),
              res |-> Ok("parse")]
    ELSE [named |-> nm, res |-> Err("parse", "BadInternalState", <<>>)]

\* Action::Append, the match on (args.next(), named.get_mut(&opt.name))
append_arm(opt, nxt, nm) ==
    IF ~is_some(nxt)
        THEN [named |-> nm, res |-> Err("parse", "MissingValue", opt.name)]
    ELSE IF contains_key(nm, opt.name) /\ nm[opt.name].tag = "Multi"
        THEN [named |-> [nm EXCEPT ![opt.name] =
                            Multi(Append(nm[opt.name].multi, unwrap(nxt)))],
              res |-> Ok("parse")]
    ELSE IF ~contains_key(nm, opt.name)
        THEN [named |-> insert(nm, opt.name, Multi(<<unwrap(nxt)>>)),
              res |-> Ok("parse")]
    ELSE [named |-> nm, res |-> Err("parse", "BadInternalState", <<>>)]

\* Variant of flag_arm: an occurrence toggles the flag in the slot.
flag_arm_toggle(opt, b, nm) ==
    [named |-> IF contains_key(nm, opt.name) /\ nm[opt.name].tag = "Flag"
                    THEN insert(nm, opt.name, Flag(~nm[opt.name].flag))
                    ELSE insert(nm, opt.name, Flag(b)),
     res |-> Ok("parse")]

\* Action::SetTrue (b is true) and Action::SetFalse (b is false)
flag_arm(opt, b, nm) ==
    [named |-> insert(nm, opt.name, Flag(b)), res |-> Ok("parse")]

dispatch(opt, nxt, nm) ==
    CASE opt.action = "Set" -> set_arm(opt, nxt, nm)
      [] opt.action = "Append" -> append_arm(opt, nxt, nm)
      [] opt.action = "SetTrue" -> flag_arm(opt, TRUE, nm)
      [] opt.action = "SetFalse" -> flag_arm(opt, FALSE, nm)

(***************************************************************************)
(* Opts::parse, one pass of the while loop on the token arg.  The result   *)
(* is [positional, named, res, took]; took says that the pass consumed nxt *)
(* as well.                                                                *)
(***************************************************************************)
\* Variant of loop_body: positional.insert(0, arg) in the place of
\* positional.push(arg).
loop_body_front(os, arg, nxt, pos, nm) ==
    IF starts_with(arg, Dash) THEN
        LET f == find_opt(os, arg) IN
        IF ~f.ok
            THEN [positional |-> pos, named |-> nm, res |-> f.res, took |-> FALSE]
        ELSE LET opt == unwrap(f.opt)
                 d == dispatch(opt, nxt, nm)
             IN  [positional |-> pos, named |-> d.named, res |-> d.res,
                  took |-> calls_next(opt) /\ is_some(nxt)]
    ELSE [positional |-> <<arg>> \o pos, named |-> nm, res |-> Ok("parse"),
          took |-> FALSE]

loop_body(os, arg, nxt, pos, nm) ==
    IF starts_with(arg, Dash) THEN
        LET f == find_opt(os, arg) IN
        IF ~f.ok
            THEN [positional |-> pos, named |-> nm, res |-> f.res, took |-> FALSE]
        ELSE LET opt == unwrap(f.opt)
                 d == dispatch(opt, nxt, nm)
             IN  [positional |-> pos, named |-> d.named, res |-> d.res,
                  took |-> calls_next(opt) /\ is_some(nxt)]
    ELSE [positional |-> Append(pos, arg), named |-> nm, res |-> Ok("parse"),
          took |-> FALSE]

\* whether the pass on arg calls args.next() a second time
pass_calls_next(os, arg) ==
    /\ starts_with(arg, Dash)
    /\ find_opt(os, arg).ok
    /\ calls_next(unwrap(find_opt(os, arg).opt))

(***************************************************************************)
(* Matches and its accessors.  An accessor returns [ok, val, err].         *)
(***************************************************************************)
MatchesNew(exec_name, pos, nm) ==
    [exec_name |-> exec_name, positional |-> pos, named |-> nm]

WrongOptionType == [kind |-> "WrongOptionType", arg |-> <<>>]

\* <String as FromStr>::from_str, which cannot fail
from_str(s) == [ok |-> TRUE, val |-> s]

\* format!("{:?}", val) of a Vec<String>: ["..", ".."]
RECURSIVE debug_items(_, _)
debug_items(val, i) ==
    IF i > Len(val) THEN <<>>
    ELSE (IF i > 1 THEN <<",", " ">> ELSE <<>>)
         \o <<"\"">> \o val[i] \o <<"\"">> \o debug_items(val, i + 1)

debug(val) == <<"[">> \o debug_items(val, 1) \o <<"]">>

flag(m, name) ==
    LET g == get(m.named, name) IN
    IF is_some(g) /\ unwrap(g).tag = "Flag"
        THEN [ok |-> TRUE, val |-> Some(unwrap(g).flag), err |-> NoErr]
    ELSE IF is_some(g)
        THEN [ok |-> FALSE, val |-> None, err |-> WrongOptionType]
    ELSE [ok |-> TRUE, val |-> None, err |-> NoErr]

one(m, name) ==
    LET g == get(m.named, name) IN
    IF is_some(g) /\ unwrap(g).tag = "Single" THEN
        LET v == from_str(unwrap(g).single) IN
        IF v.ok THEN [ok |-> TRUE, val |-> Some(v.val), err |-> NoErr]
        ELSE [ok |-> FALSE, val |-> None,
              err |-> [kind |-> "ConversionError", arg |-> unwrap(g).single]]
    ELSE IF is_some(g)
        THEN [ok |-> FALSE, val |-> None, err |-> WrongOptionType]
    ELSE [ok |-> TRUE, val |-> None, err |-> NoErr]

all(m, name) ==
    LET g == get(m.named, name) IN
    IF is_some(g) /\ unwrap(g).tag = "Multi" THEN
        LET val == unwrap(g).multi
            r == [i \in 1..Len(val) |-> from_str(val[i])]
        IN  IF \A i \in 1..Len(val) : r[i].ok
                THEN [ok |-> TRUE, val |-> [i \in 1..Len(val) |-> r[i].val],
                      err |-> NoErr]
                ELSE [ok |-> FALSE, val |-> <<>>,
                      err |-> [kind |-> "ConversionError", arg |-> debug(val)]]
    ELSE IF is_some(g)
        THEN [ok |-> FALSE, val |-> <<>>, err |-> WrongOptionType]
    ELSE [ok |-> TRUE, val |-> <<>>, err |-> NoErr]

positional_of(m) == m.positional

(***************************************************************************)
(* Opts::parse as a function of the registry and of the whole vector: the  *)
(* loop from the token at index i on, then Ok(Matches::new(..)).  The      *)
(* result is [res, matches].                                               *)
(***************************************************************************)
RECURSIVE scan(_, _, _, _, _)
scan(os, v, i, pos, nm) ==
    IF i > Len(v)
        THEN [res |-> Ok("parse"), matches |-> Some(MatchesNew(v[1], pos, nm))]
    ELSE LET nxt == IF i + 1 <= Len(v) THEN Some(v[i + 1]) ELSE None
             r == loop_body(os, v[i], nxt, pos, nm)
         IN  IF ~r.res.ok THEN [res |-> r.res, matches |-> None]
             ELSE scan(os, v, IF r.took THEN i + 2 ELSE i + 1, r.positional, r.named)

parse(os, v) ==
    IF v = <<>>
        THEN [res |-> Err("parse", "MissingProgramName", <<>>), matches |-> None]
        ELSE scan(os, v, 2, <<>>, populate_defaults(os, EmptyMap))


(***************************************************************************)
(* The inputs of the model.                                                *)
(***************************************************************************)
SeqsUpTo(S, n) == UNION {[1..k -> S] : k \in 0..n}

\* every Opt the builder makes from these names, with each of these optional
\* shorts, longs and defaults set (when Some) and each of these actions
Built(names, shorts, longs, defaults, actions) ==
    LET with_short(o, c) == IF is_some(c) THEN OptShort(o, unwrap(c)) ELSE o
        with_long(o, l) == IF is_some(l) THEN OptLong(o, unwrap(l)) ELSE o
        with_default(o, d) == IF is_some(d) THEN OptDefault(o, unwrap(d)) ELSE o
    IN  {OptAction(with_default(with_long(with_short(OptName(n), c), l), d), a) :
            n \in names, c \in shorts, l \in longs, d \in defaults, a \in actions}

\* the declarations of the registries that are parsed with: `a` has no long
\* and may be spelled -q, `b` is spelled --h and may be spelled -q as well;
\* each with or without a default, with each action
ParseDecls ==
    Built({<<"a">>}, {None, Some("q")}, {None}, {None, Some(<<"d">>)}, Actions)
    \cup Built({<<"b">>}, {None, Some("q")}, {Some(<<"h">>)}, {None, Some(<<"d">>)}, Actions)

\* the declarations of the registries that are only validated: Opt::name(..)
\* with an optional short and long, as in the tests detects_duplicate_*
PlainDecls ==
    Built({<<"a">>, <<"b">>, <<"c">>}, {None, Some("p"), Some("t")},
          {None, Some(<<"h">>)}, {None}, {"Set"})

\* the tokens of the vectors handed to parse
ExecName == <<"p">>
Tokens ==
    { <<"x">>, <<"y">>,                  \* plain tokens
      <<"-">>,                           \* a lone dash
      <<"-", "q">>,                      \* -q
      <<"-", "-", "h">>,                 \* --h
      <<"-", "q", "h">> }                \* -qh

(***************************************************************************)
(* The state before any call.                                              *)
(***************************************************************************)
Init ==
    /\ pc = "init"
    /\ given = <<>>
    /\ opts = <<>>
    /\ res = Ok("none")
    /\ matches = None
    /\ args = <<>>
    /\ role = <<>>
    /\ positional = <<>>
    /\ named = EmptyMap

(***************************************************************************)
(* Opts::new(ds)                                                           *)
(***************************************************************************)
New(ds) ==
    /\ pc = "init"
    /\ given' = ds
    /\ LET v == validate(ds) IN
        IF v.ok
            THEN /\ opts' = ds
                 /\ res' = Ok("new")
                 /\ pc' = "ready"
            ELSE /\ opts' = opts
                 /\ res' = [v EXCEPT !.op = "new"]
                 /\ pc' = "rejected"
    /\ UNCHANGED <<matches, args, role, positional, named>>

(***************************************************************************)
(* Opts::add(arg)                                                          *)
(***************************************************************************)
add(os, arg) ==
    LET pushed == Append(os, arg)
    IN  [opts |-> pushed, res |-> [validate(pushed) EXCEPT !.op = "add"]]

Add(arg) ==
    /\ pc = "ready"
    /\ Len(opts) < MaxAdds
    /\ given' = <<arg>>
    /\ opts' = add(opts, arg).opts
    /\ res' = add(opts, arg).res
    /\ UNCHANGED <<pc, matches, args, role, positional, named>>

(***************************************************************************)
(* Opts::parse, up to the loop: the first args.next() and                  *)
(* populate_defaults.                                                      *)
(***************************************************************************)
ParseEmpty ==
    /\ pc = "ready"
    /\ res' = Err("parse", "MissingProgramName", <<>>)
    /\ pc' = "done"
    /\ UNCHANGED <<given, opts, matches, args, role, positional, named>>

ParseStart ==
    /\ pc = "ready"
    /\ args' = <<ExecName>>
    /\ role' = <<"exec">>
    /\ positional' = <<>>
    /\ named' = populate_defaults(opts, EmptyMap)
    /\ pc' = "scan"
    /\ UNCHANGED <<given, opts, res, matches>>

(***************************************************************************)
(* Opts::parse, one pass of the loop: args.next() yields arg, and the pass *)
(* may call args.next() once more, which yields nxt.  The vector handed to *)
(* parse is any vector of at most MaxArgs tokens: the variable args holds  *)
(* the tokens read so far, and what follows them is chosen when it is      *)
(* read (a token, or None at the end of the vector).                       *)
(***************************************************************************)
ParsePass(arg, nxt) ==
    /\ pc = "scan"
    /\ Len(args) + 1 + Len(nxt) <= MaxArgs
    /\ LET r == loop_body(opts, arg, nxt, positional, named) IN
        /\ positional' = r.positional
        /\ named' = r.named
        /\ args' = args \o <<arg>> \o (IF r.took THEN nxt ELSE <<>>)
        /\ role' = role \o <<IF starts_with(arg, Dash) THEN "opt" ELSE "pos">>
                        \o (IF r.took THEN <<"val">> ELSE <<>>)
        /\ IF r.res.ok
            THEN UNCHANGED <<pc, res>>
            ELSE pc' = "done" /\ res' = r.res
    /\ UNCHANGED <<given, opts, matches>>

(***************************************************************************)
(* Opts::parse, args.next() yields None at the head of the loop.           *)
(***************************************************************************)
ParseEnd ==
    /\ pc = "scan"
    /\ matches' = Some(MatchesNew(args[1], positional, named))
    /\ res' = Ok("parse")
    /\ pc' = "done"
    /\ UNCHANGED <<given, opts, args, role, positional, named>>

(***************************************************************************)
(* The specifications.                                                     *)
(***************************************************************************)
NewForParse == pc = "init" /\ \E ds \in SeqsUpTo(ParseDecls, MaxOpts) : New(ds)
NewPlain == pc = "init" /\ \E ds \in SeqsUpTo(PlainDecls, MaxDecls) : New(ds)
NewEmpty == New(<<>>)
AddPlain == pc = "ready" /\ \E d \in PlainDecls : Add(d)
Pass ==
    /\ pc = "scan"
    /\ Len(args) < MaxArgs
    /\ \E arg \in Tokens :
        \E nxt \in IF pass_calls_next(opts, arg)
                       THEN {None} \cup {Some(t) : t \in Tokens}
                       ELSE {None} :
                ParsePass(arg, nxt)

\* a registry is built once and then parsed with
Next == NewForParse \/ ParseEmpty \/ ParseStart \/ Pass \/ ParseEnd
Spec == Init /\ [][Next]_vars

\* construction alone
NextNew == NewPlain
SpecNew == Init /\ [][NextNew]_vars

\* an empty registry grown by add
NextAdd == NewEmpty \/ AddPlain
SpecAdd == Init /\ [][NextAdd]_vars

(***************************************************************************)
(* Vocabulary of the properties.                                           *)
(***************************************************************************)
\* parse has returned Ok(Matches)
ParsedOk == pc = "done" /\ res.op = "parse" /\ res.ok /\ is_some(matches)

\* the Matches that parse returned
M == unwrap(matches)

\* the elements of s at the indices in I, in the order of s
RECURSIVE PickFrom(_, _, _)
PickFrom(s, I, i) ==
    IF i > Len(s) THEN <<>>
    ELSE (IF i \in I THEN <<s[i]>> ELSE <<>>) \o PickFrom(s, I, i + 1)

Pick(s, I) == PickFrom(s, I, 1)

Last(S) == CHOOSE x \in S : \A y \in S : y <= x

\* the token tok is a spelling of the declaration d: --long or -short
Spells(d, tok) ==
    \/ is_some(d.long) /\ tok = DashDash \o unwrap(d.long)
    \/ is_some(d.short) /\ tok = Dash \o <<unwrap(d.short)>>

\* the indices of args where d occurs in option position
Occ(d) == {i \in 2..Len(args) : role[i] = "opt" /\ Spells(d, args[i])}

\* the ok value of an accessor
Got(v) == [ok |-> TRUE, val |-> v, err |-> NoErr]

(***************************************************************************)
(* The loop taken pass by pass returns what parse returns on the tokens it *)
(* has read.                                                               *)
(***************************************************************************)
PassesAgreeWithParse ==
    (pc = "done" /\ res.op = "parse") =>
        parse(opts, args) = [res |-> res, matches |-> matches]

(***************************************************************************)
(* C1.  After a successful parse, positional() is the sequence of the      *)
(* tokens after the exec name that do not begin with `-` and were not      *)
(* consumed as the value of a Set or Append option, in their order in the  *)
(* vector, duplicates kept.                                                *)
(***************************************************************************)
C1_Positional ==
    ParsedOk =>
        positional_of(M) =
            Pick(args, {i \in 2..Len(args) :
                            ~starts_with(args[i], Dash) /\ role[i] # "val"})

\* two different positional tokens around an option whose value is a plain token
C1_Witness ==
    /\ ParsedOk
    /\ Len(positional_of(M)) = 2
    /\ positional_of(M)[1] # positional_of(M)[2]
    /\ \E i \in 2..Len(args) : role[i] = "val" /\ ~starts_with(args[i], Dash)

(***************************************************************************)
(* C2.  Opts::new succeeds exactly when no two declarations share a name,  *)
(* a present short or a present long; when it fails, the error is one for  *)
(* the earliest declaration that collides with a preceding one, and it     *)
(* states the kind of the collision and the offending value.               *)
(***************************************************************************)
SameName(d, e) == d.name = e.name
SameShort(d, e) == is_some(d.short) /\ d.short = e.short
SameLong(d, e) == is_some(d.long) /\ d.long = e.long

\* ds[i] collides with a declaration before it
Collides(ds, i) ==
    \E j \in 1..(i - 1) :
        SameName(ds[i], ds[j]) \/ SameShort(ds[i], ds[j]) \/ SameLong(ds[i], ds[j])

\* the messages that state a collision of ds[i] with a declaration before it
CollisionMsgs(ds, i) ==
    {<<NameMsg>> \o ds[i].name : j \in {j \in 1..(i - 1) : SameName(ds[i], ds[j])}}
    \cup {<<ShortMsg>> \o <<unwrap(ds[i].short)>> : j \in {j \in 1..(i - 1) : SameShort(ds[i], ds[j])}}
    \cup {<<LongMsg>> \o unwrap(ds[i].long) :
            j \in {j \in 1..(i - 1) : SameLong(ds[i], ds[j])}}

C2_NewIffDistinct ==
    res.op = "new" =>
        LET bad == {i \in 1..Len(given) : Collides(given, i)} IN
        /\ res.ok <=> bad = {}
        /\ res.ok => pc = "ready" /\ opts = given
        /\ ~res.ok =>
            /\ pc = "rejected"
            /\ res.err.kind = "String"
            /\ res.err.arg \in CollisionMsgs(given, CHOOSE i \in bad : \A k \in bad : i <= k)

\* the second declaration collides on its short, the third on its name
C2_Witness ==
    /\ pc = "rejected"
    /\ Len(given) = 3
    /\ SameShort(given[2], given[1]) /\ ~SameName(given[2], given[1])
    /\ SameName(given[3], given[2])
    /\ res.err.arg = <<ShortMsg>> \o <<unwrap(given[2].short)>>

(***************************************************************************)
(* C3.  When add returns an error, the registry's declarations are those   *)
(* of before the call.                                                     *)
(***************************************************************************)
C3_RejectedAddLeavesRegistry ==
    [][(res'.op = "add" /\ ~res'.ok) => opts' = opts]_vars

C6_NoBadInternalState ==
    ~(pc = "done" /\ res.op = "parse" /\ res.err.kind = "BadInternalState")

(***************************************************************************)
(* C7.  After a successful parse, flag(name) of an option declared SetTrue *)
(* or SetFalse, with or without a default, is Ok(Some(b)).                 *)
(***************************************************************************)
C7_FlagAlwaysBool ==
    ParsedOk =>
        \A k \in 1..Len(opts) :
            opts[k].action \in {"SetTrue", "SetFalse"} =>
                /\ flag(M, opts[k].name).ok
                /\ is_some(flag(M, opts[k].name).val)

(***************************************************************************)
(* C8.  A token in option position that begins with `--` and whose rest is *)
(* no declaration's long makes parse fail with UnexpectedOption(token); one *)
(* that begins with a single `-` and is not two characters long, with      *)
(* MalformedOption(token); one of two characters whose second is no        *)
(* declaration's short, with UnexpectedOption(token).  The parse stops at  *)
(* the first such token and returns no Matches.                            *)
(***************************************************************************)
\* the error the claim assigns to tok in option position, or "none"
OptionFault(tok) ==
    IF starts_with(tok, DashDash) THEN
        IF \E k \in 1..Len(opts) :
                opts[k].long = Some(SubSeq(tok, 3, Len(tok)))
            THEN "none" ELSE "UnexpectedOption"
    ELSE IF Len(tok) # 2 THEN "MalformedOption"
    ELSE IF \E k \in 1..Len(opts) : opts[k].short = Some(tok[2])
        THEN "none" ELSE "UnexpectedOption"

C8_OptionFaults ==
    \A i \in 2..Len(args) :
        (role[i] = "opt" /\ OptionFault(args[i]) # "none") =>
            /\ i = Len(args)
            /\ pc = "done"
            /\ res = Err("parse", OptionFault(args[i]), args[i])
            /\ matches = None

\* a lone dash in option position, after a lone dash that a Set or Append
\* option took as its value
C8_Witness ==
    /\ pc = "done"
    /\ Len(args) = 4
    /\ role[3] = "val" /\ args[3] = Dash
    /\ role[4] = "opt" /\ args[4] = Dash
    /\ res = Err("parse", "MalformedOption", Dash)

(***************************************************************************)
(* C9.  When the last token of the vector is an occurrence of a Set or     *)
(* Append option, parse fails with MissingValue(name of the declaration)   *)
(* and returns no Matches, whatever it did with the tokens before.         *)
(***************************************************************************)
C9_MissingValue ==
    \A k \in 1..Len(opts) :
        ( /\ Len(args) >= 2
          /\ role[Len(args)] = "opt"
          /\ Spells(opts[k], args[Len(args)])
          /\ opts[k].action \in {"Set", "Append"} ) =>
            /\ pc = "done"
            /\ res = Err("parse", "MissingValue", opts[k].name)
            /\ matches = None

\* an Append option spelled --h and named b ends the vector, after a
\* positional token and a complete occurrence of the same option
C9_Witness ==
    /\ pc = "done"
    /\ Len(args) = 5
    /\ positional # <<>>
    /\ \E k \in 1..Len(opts) :
        /\ opts[k].action = "Append"
        /\ is_some(opts[k].long)
        /\ Cardinality(Occ(opts[k])) = 2
        /\ args[5] = DashDash \o unwrap(opts[k].long)
        /\ res = Err("parse", "MissingValue", opts[k].name)

====
